---------------------------- MODULE Spec2Model ----------------------------
(***************************************************************************)
(* Model of the bookworm marketplace backend: orders, pickup codes, the    *)
(* code rotation service, redemption, feedback and stock reservations.     *)
(*                                                                         *)
(* Every store call (find, create, save, findOneAndUpdate) is one atomic   *)
(* step; a request handler is a chain of such steps and handlers of        *)
(* different requests interleave between them.  A mongoose save() writes   *)
(* only the paths the handler modified.                                    *)
(*                                                                         *)
(* The repository holds two revisions of the order router                  *)
(* (src/src/routes/orderRoutes.js and src/unnamed/part_001) and two of the *)
(* rotation service (src/src/services/codeRotationService.js and           *)
(* src/unnamed/part_005).  A running server mounts one of each: `router`   *)
(* and `rotator` are chosen in Init and never change.                      *)
(***************************************************************************)
EXTENDS Integers, Sequences, FiniteSets, TLC

VARIABLES
    now,        \* wall clock, in seconds
    router,     \* which revision of the order router is mounted
    rotator,    \* which revision of the rotation service runs
    ratingIndex, \* which revision of the Rating model's unique index is built
    stock,      \* Package.stock, per package
    isAvailable, \* Package.isAvailable, per package
    holds,      \* the Reservation collection: a set of documents
    orders,     \* the Order collection: a sequence, an order's id is its index
    ratings,    \* the Rating collection: a set of documents
    lastIssued, \* history: per order and code, its last generation within the window
    pickedAt,   \* history: per order, the time of its last redemption
    resp,       \* the last response sent by any handler
    observe,    \* whether lastIssued and resp are recorded (fixed by Init)
    nextTick,   \* the time at which the next setInterval callback is due
    rot,        \* the rotation callback: its position and the orders still to visit
    getReq,     \* GET /:id/code requests in flight
    refReq,     \* POST /:id/refresh-code requests in flight
    verReq,     \* POST /verify-pin and POST /:id/verify-code requests in flight
    fbReq,      \* POST /:id/feedback requests in flight
    repReq,     \* POST /:id/reply requests in flight
    resReq,     \* PUT /:id/reserve requests in flight
    pkgReq      \* GET /api/packages, /company and /:id requests in flight

vars ==
    << now, router, rotator, ratingIndex, isAvailable, stock, holds, orders, ratings, lastIssued, pickedAt,
       resp, observe, nextTick, rot, getReq, refReq, verReq, fbReq, repReq, resReq, pkgReq >>

(***************************************************************************)
(* Bounds of the model.                                                    *)
(***************************************************************************)
MaxOrders == 2
MaxTime == 60
TimeStep == 10
NumCodes == 2
MaxStock == 2
MaxQty == 2
MaxHoldSteps == 2
MaxGraceSteps == 3

(***************************************************************************)
(* Program constants.                                                      *)
(***************************************************************************)
ValidityWindow == 20
RotationPeriod == 20
FeedbackDays == 7
ReservationWindow == 600

Customers == {"alice", "bob"}
Companies == {"kiosk", "bakery"}
Packages == {"p1", "p2"}
Codes == 1..NumCodes
OrderRouters == {"orderRoutes", "part_001"}
Rotators == {"codeRotationService", "part_005"}

\* the revisions of the Rating model: unique per (order, customer), or per
\* (package, customer) with a rated item required
RatingIndexes == {"orderCustomer", "packageCustomer"}
VerifySlots == {"v1", "v2"}
OneSlot == {"r1"}

\* two feedback requests can be in flight at once
FeedbackSlots == {"r1", "r2"}

\* two reply requests can be in flight at once
ReplySlots == {"r1", "r2"}

\* the texts of a reply; the empty text is no reply
Replies == {"thanks", "sorry"}
NoReply == ""

PackageCompany(p) == "kiosk"

NoHash == << >>
NoPlain == 0
NoDate == -1
NoOrder == 0
NoResp == [op |-> "none", status |-> 0, order |-> NoOrder]
Idle == [pc |-> "idle"]

Min(a, b) == IF a <= b THEN a ELSE b
Max(a, b) == IF a >= b THEN a ELSE b

OrderIds == 1..Len(orders)

(***************************************************************************)
(* utils/rotatingCode.js: a code is a short decimal string, the stored     *)
(* secret is its salted one-way hash, and a candidate verifies iff it      *)
(* hashes to the stored secret.                                            *)
(***************************************************************************)
Hash(plain) == << "bcrypt", plain >>

generateHashedCode == { [plain |-> c, hash |-> Hash(c)] : c \in Codes }

isValidCode(code, hash) == hash # NoHash /\ hash[2] = code

(***************************************************************************)
(* Date.now() - new Date(order.codeGeneratedAt).getTime() > 20000          *)
(***************************************************************************)
Expired(generatedAt, t) == t - generatedAt > ValidityWindow


(***************************************************************************)
(* Request inputs.                                                         *)
(***************************************************************************)
Users == Customers \cup Companies
Role(u) == IF u \in Customers THEN "customer" ELSE "company"
NoCompany == "none"
NoItems == << [package |-> "none", quantity |-> 0] >>

SingleCarts ==
    { << [package |-> p, quantity |-> q] >> : p \in Packages, q \in 1..MaxQty }

PairCarts ==
    { << [package |-> "p1", quantity |-> q], [package |-> "p2", quantity |-> 1] >> :
        q \in 1..MaxQty }

Carts == SingleCarts \cup PairCarts

NeverIssued == [at |-> NoDate, by |-> "nobody"]

Response(op, status, order) ==
    IF observe THEN [op |-> op, status |-> status, order |-> order] ELSE resp

\* A handler step either answers (the request is over) or goes on to its next
\* store call.
Done(status, order) == [pc |-> "done", status |-> status, order |-> order]

Slot(out) == IF out.pc = "done" THEN Idle ELSE out

Answer(op, out) == IF out.pc = "done" THEN Response(op, out.status, out.order) ELSE resp

\* the history of generations: code `code` was generated for order `id` now
Issue(id, code, by) ==
    IF observe THEN [lastIssued EXCEPT ![id][code] = [at |-> now, by |-> by]]
    ELSE lastIssued

Free(req, s) == req[s].pc = "idle"

(***************************************************************************)
(* POST /  (create order).  One store call: Order.create.                  *)
(***************************************************************************)
NewOrder(user, company, items, totalAmount) ==
    [ customer |-> user, company |-> company, items |-> items,
      totalAmount |-> totalAmount, status |-> "confirmed",
      pickupCodeHash |-> NoHash, pickupCodePlain |-> NoPlain,
      codeGeneratedAt |-> NoDate, createdAt |-> now ]

\* the quantity of package p in a cart
RECURSIVE CartQty(_, _)
CartQty(items, p) ==
    IF items = << >> THEN 0
    ELSE (IF Head(items).package = p THEN Head(items).quantity ELSE 0)
         + CartQty(Tail(items), p)

\* a create-order handler that takes the items off the stock without looking
CreateOrder_Decrement(user, company, items, totalAmount) ==
    /\ IF Role(user) # "customer"
       THEN /\ resp' = Response("createOrder", 403, NoOrder)
            /\ UNCHANGED << orders, lastIssued, pickedAt, stock >>
       ELSE IF company = NoCompany \/ items = NoItems \/ totalAmount = 0
       THEN /\ resp' = Response("createOrder", 400, NoOrder)
            /\ UNCHANGED << orders, lastIssued, pickedAt, stock >>
       ELSE /\ Len(orders) < MaxOrders
            /\ orders' = Append(orders, NewOrder(user, company, items, totalAmount))
            /\ lastIssued' = Append(lastIssued, [c \in Codes |-> NeverIssued])
            /\ pickedAt' = Append(pickedAt, NoDate)
            /\ stock' = [p \in Packages |-> stock[p] - CartQty(items, p)]
            /\ resp' = Response("createOrder", 201, Len(orders) + 1)
    /\ UNCHANGED << now, observe, router, rotator, ratingIndex, isAvailable, repReq, pkgReq, holds, ratings, nextTick, rot,
                    getReq, refReq, verReq, fbReq, resReq >>

CreateOrder(user, company, items, totalAmount) ==
    /\ IF Role(user) # "customer"
       THEN /\ resp' = Response("createOrder", 403, NoOrder)
            /\ UNCHANGED << orders, lastIssued, pickedAt >>
       ELSE IF company = NoCompany \/ items = NoItems \/ totalAmount = 0
       THEN /\ resp' = Response("createOrder", 400, NoOrder)
            /\ UNCHANGED << orders, lastIssued, pickedAt >>
       ELSE /\ Len(orders) < MaxOrders
            /\ orders' = Append(orders, NewOrder(user, company, items, totalAmount))
            /\ lastIssued' = Append(lastIssued, [c \in Codes |-> NeverIssued])
            /\ pickedAt' = Append(pickedAt, NoDate)
            /\ resp' = Response("createOrder", 201, Len(orders) + 1)
    /\ UNCHANGED << now, observe, router, rotator, ratingIndex, isAvailable, repReq, pkgReq, stock, holds, ratings, nextTick, rot,
                    getReq, refReq, verReq, fbReq, resReq >>

(***************************************************************************)
(* GET /:id/code                                                           *)
(***************************************************************************)
\* part_001 answers "••••••" in place of a code that is still valid
MaskedCode == -1

\* res.json({ pickupCode, codeGeneratedAt, expiresIn })
CodeReply(id, code, expiresIn) ==
    IF observe
    THEN [ op |-> "getCode", status |-> 200, order |-> id,
           pickupCode |-> code, expiresIn |-> expiresIn ]
    ELSE resp

GetCodeOutcome(user, id) ==
    IF id \notin OrderIds
    THEN Done(404, NoOrder)
    ELSE IF Role(user) # "customer" \/ orders[id].customer # user
    THEN Done(403, id)
    ELSE IF orders[id].pickupCodeHash = NoHash \/ orders[id].codeGeneratedAt = NoDate
    THEN [pc |-> "save", order |-> id]
    ELSE IF Expired(orders[id].codeGeneratedAt, now)
    THEN [pc |-> "save", order |-> id]
    ELSE Done(200, id)

GetCodeFind(s, user, id) ==
    /\ Free(getReq, s)
    /\ getReq' = [getReq EXCEPT ![s] = Slot(GetCodeOutcome(user, id))]
    /\ resp' = IF GetCodeOutcome(user, id) = Done(200, id)
               THEN CodeReply(id, IF router = "orderRoutes"
                                  THEN orders[id].pickupCodePlain ELSE MaskedCode,
                              Max(0, ValidityWindow - (now - orders[id].codeGeneratedAt)))
               ELSE Answer("getCode", GetCodeOutcome(user, id))
    /\ UNCHANGED << now, observe, router, rotator, ratingIndex, isAvailable, repReq, pkgReq, pickedAt, stock, holds, orders, ratings, lastIssued,
                    nextTick, rot, refReq, verReq, fbReq, resReq >>

\* orderRoutes.js stores the plaintext beside the hash; part_001 does not
GetCodeSave(s) ==
    /\ getReq[s].pc = "save"
    /\ \E g \in generateHashedCode :
         LET id == getReq[s].order IN
         /\ orders' = [orders EXCEPT
                ![id].pickupCodeHash = g.hash,
                ![id].pickupCodePlain =
                    IF router = "orderRoutes" THEN g.plain ELSE @,
                ![id].codeGeneratedAt = now]
         /\ lastIssued' = Issue(id, g.plain, "get")
         /\ getReq' = [getReq EXCEPT ![s] = Idle]
         /\ resp' = CodeReply(id, g.plain, ValidityWindow)
    /\ UNCHANGED << now, observe, router, rotator, ratingIndex, isAvailable, repReq, pkgReq, pickedAt, stock, holds, ratings, nextTick, rot,
                    refReq, verReq, fbReq, resReq >>

(***************************************************************************)
(* POST /:id/refresh-code                                                  *)
(***************************************************************************)
RefreshCodeOutcome(user, id) ==
    IF id \notin OrderIds
    THEN Done(404, NoOrder)
    ELSE IF Role(user) # "company" \/ user # orders[id].company
    THEN Done(403, id)
    ELSE [pc |-> "save", order |-> id]

RefreshCodeFind(s, user, id) ==
    /\ Free(refReq, s)
    /\ refReq' = [refReq EXCEPT ![s] = Slot(RefreshCodeOutcome(user, id))]
    /\ resp' = Answer("refreshCode", RefreshCodeOutcome(user, id))
    /\ UNCHANGED << now, observe, router, rotator, ratingIndex, isAvailable, repReq, pkgReq, pickedAt, stock, holds, orders, ratings, lastIssued,
                    nextTick, rot, getReq, verReq, fbReq, resReq >>

\* the hash and the generation time are replaced; pickupCodePlain is not touched
RefreshCodeSave(s) ==
    /\ refReq[s].pc = "save"
    /\ \E g \in generateHashedCode :
         LET id == refReq[s].order IN
         /\ orders' = [orders EXCEPT
                ![id].pickupCodeHash = g.hash,
                ![id].codeGeneratedAt = now]
         /\ lastIssued' = Issue(id, g.plain, "refresh")
         /\ refReq' = [refReq EXCEPT ![s] = Idle]
         /\ resp' = Response("refreshCode", 200, id)
    /\ UNCHANGED << now, observe, router, rotator, ratingIndex, isAvailable, repReq, pkgReq, pickedAt, stock, holds, ratings, nextTick, rot,
                    getReq, verReq, fbReq, resReq >>

(***************************************************************************)
(* POST /verify-pin (orderRoutes.js).  The handler loads the company's     *)
(* open orders, walks them in order and stops at the first whose code      *)
(* matches; then it saves status = picked on that document.                *)
(***************************************************************************)
OpenOrders(company) ==
    SelectSeq([i \in 1..Len(orders) |-> i],
              LAMBDA i : /\ orders[i].company = company
                         /\ orders[i].status \in {"confirmed", "ready"})

PinMatches(o, code, t) ==
    /\ o.pickupCodeHash # NoHash
    /\ o.codeGeneratedAt # NoDate
    /\ ~Expired(o.codeGeneratedAt, t)
    /\ \/ isValidCode(code, o.pickupCodeHash)
       \/ (o.pickupCodePlain # NoPlain /\ o.pickupCodePlain = code)

RECURSIVE ScanOrders(_, _, _)
ScanOrders(ids, code, t) ==
    IF ids = << >> THEN NoOrder
    ELSE IF PinMatches(orders[Head(ids)], code, t) THEN Head(ids)
    ELSE ScanOrders(Tail(ids), code, t)

VerifyPinOutcome(user, code) ==
    IF Role(user) # "company"
    THEN Done(403, NoOrder)
    ELSE IF ScanOrders(OpenOrders(user), code, now) = NoOrder
    THEN Done(400, NoOrder)
    ELSE [ pc |-> "save", order |-> ScanOrders(OpenOrders(user), code, now),
           code |-> code, user |-> user ]

VerifyPinScan(s, user, code) ==
    /\ router = "orderRoutes"
    /\ Free(verReq, s)
    /\ verReq' = [verReq EXCEPT ![s] = Slot(VerifyPinOutcome(user, code))]
    /\ resp' = Answer("verify", VerifyPinOutcome(user, code))
    /\ UNCHANGED << now, observe, router, rotator, ratingIndex, isAvailable, repReq, pkgReq, pickedAt, stock, holds, orders, ratings, lastIssued,
                    nextTick, rot, getReq, refReq, fbReq, resReq >>

(***************************************************************************)
(* POST /:id/verify-code (part_001).  No status check; a missing           *)
(* codeGeneratedAt makes the elapsed time NaN, which is not > 20000.       *)
(***************************************************************************)
VerifyCodeOutcome(user, id, code) ==
    IF id \notin OrderIds
    THEN Done(404, NoOrder)
    ELSE IF Role(user) # "company" \/ user # orders[id].company
    THEN Done(403, id)
    ELSE IF orders[id].codeGeneratedAt # NoDate /\ Expired(orders[id].codeGeneratedAt, now)
    THEN Done(400, id)
    ELSE IF ~isValidCode(code, orders[id].pickupCodeHash)
    THEN Done(400, id)
    ELSE [pc |-> "save", order |-> id, code |-> code, user |-> user]

VerifyCodeFind(s, user, id, code) ==
    /\ router = "part_001"
    /\ Free(verReq, s)
    /\ verReq' = [verReq EXCEPT ![s] = Slot(VerifyCodeOutcome(user, id, code))]
    /\ resp' = Answer("verify", VerifyCodeOutcome(user, id, code))
    /\ UNCHANGED << now, observe, router, rotator, ratingIndex, isAvailable, repReq, pkgReq, pickedAt, stock, holds, orders, ratings, lastIssued,
                    nextTick, rot, getReq, refReq, fbReq, resReq >>

\* order.status = "picked"; await order.save()
VerifySave(s) ==
    /\ verReq[s].pc = "save"
    /\ orders' = [orders EXCEPT ![verReq[s].order].status = "picked"]
    /\ verReq' = [verReq EXCEPT ![s] = Idle]
    /\ resp' = Response("verify", 200, verReq[s].order)
    /\ pickedAt' = IF observe THEN [pickedAt EXCEPT ![verReq[s].order] = now]
                   ELSE pickedAt
    /\ UNCHANGED << now, observe, router, rotator, ratingIndex, isAvailable, repReq, pkgReq, stock, holds, ratings, lastIssued,
                    nextTick, rot, getReq, refReq, fbReq, resReq >>

(***************************************************************************)
(* POST /:id/feedback                                                      *)
(***************************************************************************)
GraceSeconds == FeedbackDays * 86400

FeedbackOutcome(user, id, rating) ==
    IF Role(user) # "customer"
    THEN Done(403, NoOrder)
    ELSE IF rating < 1 \/ rating > 5
    THEN Done(400, NoOrder)
    ELSE IF id \notin OrderIds
    THEN Done(404, NoOrder)
    ELSE IF orders[id].customer # user
    THEN Done(403, id)
    ELSE IF orders[id].status # "picked"
    THEN Done(400, id)
    ELSE IF router = "orderRoutes" /\ orders[id].createdAt < now - GraceSeconds
    THEN Done(400, id)
    ELSE [ pc |-> "check", order |-> id, user |-> user, rating |-> rating,
           company |-> orders[id].company, items |-> orders[id].items ]

FeedbackFind(s, user, id, rating) ==
    /\ Free(fbReq, s)
    /\ fbReq' = [fbReq EXCEPT ![s] = Slot(FeedbackOutcome(user, id, rating))]
    /\ resp' = Answer("feedback", FeedbackOutcome(user, id, rating))
    /\ UNCHANGED << now, observe, router, rotator, ratingIndex, isAvailable, repReq, pkgReq, pickedAt, stock, holds, orders, ratings, lastIssued,
                    nextTick, rot, getReq, refReq, verReq, resReq >>

HasRating(order, customer) ==
    \E r \in ratings : r.order = order /\ r.customer = customer

\* Rating.findOne({ order, customer })
FeedbackCheck(s) ==
    /\ fbReq[s].pc = "check"
    /\ IF HasRating(fbReq[s].order, fbReq[s].user)
       THEN /\ fbReq' = [fbReq EXCEPT ![s] = Idle]
            /\ resp' = Response("feedback", 400, fbReq[s].order)
       ELSE /\ fbReq' = [fbReq EXCEPT ![s].pc = "create"]
            /\ UNCHANGED resp
    /\ UNCHANGED << now, observe, router, rotator, ratingIndex, isAvailable, repReq, pkgReq, pickedAt, stock, holds, orders, ratings, lastIssued,
                    nextTick, rot, getReq, refReq, verReq, resReq >>

\* Rating.create throws: the unique index of the model refuses a second Rating
\* of the customer for the order, or, in the earlier model, a second Rating of
\* the customer for the package and a Rating that names no rated item
RatingRefused(order, customer, package) ==
    IF ratingIndex = "orderCustomer"
    THEN HasRating(order, customer)
    ELSE \/ package = "none"
         \/ \E r \in ratings : r.package = package /\ r.customer = customer

NewRating(req, package) ==
    [ order |-> req.order, customer |-> req.user, company |-> req.company,
      package |-> package, rating |-> req.rating, companyReply |-> "" ]

\* Rating.create under the unique index { order, customer }.  orderRoutes.js
\* creates one rating per order; part_001 creates one per line item, so the
\* second item of an order hits the unique index and the handler answers 500.
FeedbackCreate(s) ==
    /\ fbReq[s].pc = "create"
    /\ LET req == fbReq[s]
           fail == /\ fbReq' = [fbReq EXCEPT ![s] = Idle]
                   /\ resp' = Response("feedback", 500, req.order)
           goon == /\ fbReq' = [fbReq EXCEPT ![s].pc = "save"]
                   /\ UNCHANGED resp
           more == /\ fbReq' = [fbReq EXCEPT ![s].items = Tail(req.items)]
                   /\ UNCHANGED resp
       IN
       IF router = "orderRoutes"
       THEN IF RatingRefused(req.order, req.user, "none")
            THEN fail /\ UNCHANGED ratings
            ELSE goon /\ ratings' = ratings \cup {NewRating(req, "none")}
       ELSE IF req.items = << >>
            THEN goon /\ UNCHANGED ratings
            ELSE IF RatingRefused(req.order, req.user, Head(req.items).package)
            THEN fail /\ UNCHANGED ratings
            ELSE /\ ratings' = ratings \cup {NewRating(req, Head(req.items).package)}
                 /\ IF Len(req.items) > 1 THEN more ELSE goon
    /\ UNCHANGED << now, observe, router, rotator, ratingIndex, isAvailable, repReq, pkgReq, pickedAt, stock, holds, orders, lastIssued,
                    nextTick, rot, getReq, refReq, verReq, resReq >>

\* order.status = "completed"; await order.save()
FeedbackSave(s) ==
    /\ fbReq[s].pc = "save"
    /\ orders' = [orders EXCEPT ![fbReq[s].order].status = "completed"]
    /\ fbReq' = [fbReq EXCEPT ![s] = Idle]
    /\ resp' = Response("feedback", 201, fbReq[s].order)
    /\ UNCHANGED << now, observe, router, rotator, ratingIndex, isAvailable, repReq, pkgReq, pickedAt, stock, holds, ratings, lastIssued,
                    nextTick, rot, getReq, refReq, verReq, resReq >>

(***************************************************************************)
(* PUT /api/packages/:id/reserve.  Four store calls: Package.findById, the *)
(* aggregate over the unexpired reservations, the upsert or delete, and    *)
(* the aggregate again for the reply.                                      *)
(***************************************************************************)
IsAvailable(p) == isAvailable[p]

RECURSIVE SumQuantity(_)
SumQuantity(docs) ==
    IF docs = {} THEN 0
    ELSE LET d == CHOOSE x \in docs : TRUE
         IN d.quantity + SumQuantity(docs \ {d})

\* an aggregate that forgets the expiry filter
ActiveHolds_NoExpiry(p, t) == { h \in holds : h.package = p }

\* $match: package in packageIds, expiresAt > now
ActiveHolds(p, t) == { h \in holds : h.package = p /\ h.expiresAt > t }

reservedTotals(p, t) == SumQuantity(ActiveHolds(p, t))

reservedByCustomer(p, c, t) ==
    SumQuantity({ h \in ActiveHolds(p, t) : h.customer = c })

\* doc.stock and the reserved total of the map give the reported fields
withAvailability(baseStock, reserved) ==
    [ availableStock |-> Max(0, baseStock - reserved), reservedStock |-> reserved ]

ReserveOutcome(user, p, quantity) ==
    IF Role(user) # "customer"
    THEN Done(403, NoOrder)
    ELSE IF quantity < 0
    THEN Done(400, NoOrder)
    ELSE IF p \notin Packages
    THEN Done(404, NoOrder)
    ELSE IF ~IsAvailable(p)
    THEN Done(400, NoOrder)
    ELSE [ pc |-> "maps", customer |-> user, package |-> p,
           quantity |-> quantity, baseStock |-> stock[p] ]

ReserveFind(s, user, p, quantity) ==
    /\ Free(resReq, s)
    /\ resReq' = [resReq EXCEPT ![s] = Slot(ReserveOutcome(user, p, quantity))]
    /\ resp' = Answer("reserve", ReserveOutcome(user, p, quantity))
    /\ UNCHANGED << now, observe, router, rotator, ratingIndex, isAvailable, repReq, pkgReq, pickedAt, stock, holds, orders, ratings, lastIssued,
                    nextTick, rot, getReq, refReq, verReq, fbReq >>

\* an availability check that counts the customer's own hold against them
ReserveMapsOutcome_OwnCounts(r) ==
    LET available == r.baseStock - reservedTotals(r.package, now)
    IN IF r.quantity > 0 /\ available < r.quantity
       THEN Done(400, NoOrder)
       ELSE [r EXCEPT !.pc = "write"]

\* an availability check that forgets the holds of the other customers
ReserveMapsOutcome_IgnoresOthers(r) ==
    IF r.quantity > 0 /\ r.baseStock < r.quantity
    THEN Done(400, NoOrder)
    ELSE [r EXCEPT !.pc = "write"]

\* the first buildReservationMaps and the availability check
ReserveMapsOutcome(r) ==
    LET reservedByUser == reservedByCustomer(r.package, r.customer, now)
        reservedByOthers == reservedTotals(r.package, now) - reservedByUser
        available == r.baseStock - reservedByOthers
    IN IF r.quantity > 0 /\ available < r.quantity
       THEN Done(400, NoOrder)
       ELSE [r EXCEPT !.pc = "write"]

ReserveMaps(s) ==
    /\ resReq[s].pc = "maps"
    /\ resReq' = [resReq EXCEPT ![s] = Slot(ReserveMapsOutcome(resReq[s]))]
    /\ resp' = Answer("reserve", ReserveMapsOutcome(resReq[s]))
    /\ UNCHANGED << now, observe, router, rotator, ratingIndex, isAvailable, repReq, pkgReq, pickedAt, stock, holds, orders, ratings, lastIssued,
                    nextTick, rot, getReq, refReq, verReq, fbReq >>

\* an upsert that adds the quantity to the hold it finds
ReserveWrite_Adds(s) ==
    /\ resReq[s].pc = "write"
    /\ LET r == resReq[s]
           mine == { h \in holds : h.package = r.package /\ h.customer = r.customer }
           others == holds \ mine
       IN holds' = IF r.quantity > 0
                   THEN others \cup
                        { [ package |-> r.package, customer |-> r.customer,
                            quantity |-> r.quantity + SumQuantity(mine),
                            expiresAt |-> now + ReservationWindow ] }
                   ELSE others
    /\ resReq' = [resReq EXCEPT ![s].pc = "reply"]
    /\ UNCHANGED << now, observe, router, rotator, ratingIndex, isAvailable, repReq, pkgReq, pickedAt, stock, orders, ratings, lastIssued, resp,
                    nextTick, rot, getReq, refReq, verReq, fbReq >>

\* an upsert that inserts a new hold beside the one it finds
ReserveWrite_Inserts(s) ==
    /\ resReq[s].pc = "write"
    /\ LET r == resReq[s]
           others == { h \in holds : ~(h.package = r.package /\ h.customer = r.customer) }
       IN holds' = IF r.quantity > 0
                   THEN holds \cup
                        { [ package |-> r.package, customer |-> r.customer,
                            quantity |-> r.quantity,
                            expiresAt |-> now + ReservationWindow ] }
                   ELSE others
    /\ resReq' = [resReq EXCEPT ![s].pc = "reply"]
    /\ UNCHANGED << now, observe, router, rotator, ratingIndex, isAvailable, repReq, pkgReq, pickedAt, stock, orders, ratings, lastIssued, resp,
                    nextTick, rot, getReq, refReq, verReq, fbReq >>

\* Reservation.findOneAndUpdate(..., {upsert: true}) or findOneAndDelete
ReserveWrite(s) ==
    /\ resReq[s].pc = "write"
    /\ LET r == resReq[s]
           others == { h \in holds : ~(h.package = r.package /\ h.customer = r.customer) }
       IN holds' = IF r.quantity > 0
                   THEN others \cup
                        { [ package |-> r.package, customer |-> r.customer,
                            quantity |-> r.quantity,
                            expiresAt |-> now + ReservationWindow ] }
                   ELSE others
    /\ resReq' = [resReq EXCEPT ![s].pc = "reply"]
    /\ UNCHANGED << now, observe, router, rotator, ratingIndex, isAvailable, repReq, pkgReq, pickedAt, stock, orders, ratings, lastIssued, resp,
                    nextTick, rot, getReq, refReq, verReq, fbReq >>

\* the second buildReservationMaps and the reply
ReserveReply(s) ==
    /\ resReq[s].pc = "reply"
    /\ LET r == resReq[s]
           reservedTotal == reservedTotals(r.package, now)
       IN resp' = IF observe
                  THEN [ op |-> "reserve", status |-> 200, order |-> NoOrder,
                         quantity |-> r.quantity,
                         availableStock |-> Max(0, r.baseStock - reservedTotal) ]
                  ELSE resp
    /\ resReq' = [resReq EXCEPT ![s] = Idle]
    /\ UNCHANGED << now, observe, router, rotator, ratingIndex, isAvailable, repReq, pkgReq, pickedAt, stock, holds, orders, ratings, lastIssued,
                    nextTick, rot, getReq, refReq, verReq, fbReq >>

(***************************************************************************)
(* The package observations: GET /api/packages (list), GET /company and    *)
(* GET /:id.  Each reads the packages, then the unexpired reservations,    *)
(* and reports withAvailability of every package it read.                  *)
(***************************************************************************)
\* Package.find({isAvailable: true}); the first page holds every package
PackageListFind(s, user) ==
    /\ Free(pkgReq, s)
    /\ pkgReq' = [pkgReq EXCEPT ![s] =
            [ pc |-> "list", user |-> user,
              packages |-> { p \in Packages : IsAvailable(p) },
              baseStock |-> stock ]]
    /\ UNCHANGED << now, observe, router, rotator, ratingIndex, isAvailable, repReq, pickedAt, stock, holds, orders, ratings, lastIssued,
                    resp, nextTick, rot, getReq, refReq, verReq, fbReq, resReq >>

CompanyListOutcome(user) ==
    IF Role(user) # "company"
    THEN Done(403, NoOrder)
    ELSE [ pc |-> "list", user |-> user,
           packages |-> { p \in Packages : PackageCompany(p) = user },
           baseStock |-> stock ]

CompanyListFind(s, user) ==
    /\ Free(pkgReq, s)
    /\ pkgReq' = [pkgReq EXCEPT ![s] = Slot(CompanyListOutcome(user))]
    /\ resp' = Answer("listPackages", CompanyListOutcome(user))
    /\ UNCHANGED << now, observe, router, rotator, ratingIndex, isAvailable, repReq, pickedAt, stock, holds, orders, ratings, lastIssued,
                    nextTick, rot, getReq, refReq, verReq, fbReq, resReq >>

\* buildReservationMaps(packageIds) and packages.map(withAvailability)
PackageListReply(s) ==
    /\ pkgReq[s].pc = "list"
    /\ LET r == pkgReq[s] IN
       resp' = IF observe
               THEN [ op |-> "listPackages", status |-> 200, order |-> NoOrder,
                      packages |-> [ p \in r.packages |->
                          withAvailability(r.baseStock[p], reservedTotals(p, now)) ] ]
               ELSE resp
    /\ pkgReq' = [pkgReq EXCEPT ![s] = Idle]
    /\ UNCHANGED << now, observe, router, rotator, ratingIndex, isAvailable, repReq, pickedAt, stock, holds, orders, ratings, lastIssued,
                    nextTick, rot, getReq, refReq, verReq, fbReq, resReq >>

PackageDetailsOutcome(user, p) ==
    IF p \notin Packages
    THEN Done(404, NoOrder)
    ELSE [ pc |-> "details", user |-> user, package |-> p, baseStock |-> stock[p] ]

PackageDetailsFind(s, user, p) ==
    /\ Free(pkgReq, s)
    /\ pkgReq' = [pkgReq EXCEPT ![s] = Slot(PackageDetailsOutcome(user, p))]
    /\ resp' = Answer("getPackage", PackageDetailsOutcome(user, p))
    /\ UNCHANGED << now, observe, router, rotator, ratingIndex, isAvailable, repReq, pickedAt, stock, holds, orders, ratings, lastIssued,
                    nextTick, rot, getReq, refReq, verReq, fbReq, resReq >>

PackageDetailsReply(s) ==
    /\ pkgReq[s].pc = "details"
    /\ LET r == pkgReq[s]
           shown == withAvailability(r.baseStock, reservedTotals(r.package, now))
       IN resp' = IF observe
                  THEN [ op |-> "getPackage", status |-> 200, order |-> NoOrder,
                         package |-> r.package,
                         availableStock |-> shown.availableStock,
                         reservedStock |-> shown.reservedStock,
                         reservedByCurrentUser |->
                             reservedByCustomer(r.package, r.user, now) ]
                  ELSE resp
    /\ pkgReq' = [pkgReq EXCEPT ![s] = Idle]
    /\ UNCHANGED << now, observe, router, rotator, ratingIndex, isAvailable, repReq, pickedAt, stock, holds, orders, ratings, lastIssued,
                    nextTick, rot, getReq, refReq, verReq, fbReq, resReq >>

(***************************************************************************)
(* PUT /api/packages/:id (update, owner company only).  The request body   *)
(* is written to the package; the model follows the isAvailable field.     *)
(***************************************************************************)
UpdatePackage(user, p, flag) ==
    /\ IF Role(user) # "company"
       THEN /\ resp' = Response("updatePackage", 403, NoOrder)
            /\ UNCHANGED isAvailable
       ELSE IF p \notin Packages
       THEN /\ resp' = Response("updatePackage", 404, NoOrder)
            /\ UNCHANGED isAvailable
       ELSE IF PackageCompany(p) # user
       THEN /\ resp' = Response("updatePackage", 401, NoOrder)
            /\ UNCHANGED isAvailable
       ELSE /\ isAvailable' = [isAvailable EXCEPT ![p] = flag]
            /\ resp' = Response("updatePackage", 200, NoOrder)
    /\ UNCHANGED << now, observe, router, rotator, ratingIndex, pkgReq, pickedAt, stock, holds,
                    orders, ratings, lastIssued, nextTick, rot, getReq, refReq, verReq,
                    fbReq, repReq, resReq >>

(***************************************************************************)
(* The rotation service: setInterval(callback, 20000).  The callback loads *)
(* the orders with status pending or confirmed and visits them in turn.    *)
(* A visit (generate, stamp, save) takes no model time: the scan of one    *)
(* tick is over before the clock moves on, but requests interleave with it.*)
(***************************************************************************)
ActiveOrders ==
    SelectSeq([i \in 1..Len(orders) |->
                  [ id |-> i, pickupCodeHash |-> orders[i].pickupCodeHash,
                    codeGeneratedAt |-> orders[i].codeGeneratedAt ]],
              LAMBDA d : orders[d.id].status \in {"pending", "confirmed"})

RotationTick ==
    /\ rot.pc = "idle"
    /\ now = nextTick
    /\ nextTick' = nextTick + RotationPeriod
    /\ rot' = IF ActiveOrders = << >> THEN rot
              ELSE [pc |-> "scan", queue |-> ActiveOrders]
    /\ UNCHANGED << now, observe, router, rotator, ratingIndex, isAvailable, repReq, pkgReq, pickedAt, stock, holds, orders, ratings, lastIssued,
                    resp, getReq, refReq, verReq, fbReq, resReq >>

\* part_005: rotate only when there is no code or the code is expired
NeedsRotation_NoExpiry(doc, t) ==
    doc.pickupCodeHash = NoHash

NeedsRotation(doc, t) ==
    \/ doc.pickupCodeHash = NoHash
    \/ (doc.codeGeneratedAt # NoDate /\ Expired(doc.codeGeneratedAt, t))

\* a rotation that writes back the whole document it read, status included
RotateOrder_WholeDocument ==
    /\ rot.pc = "scan"
    /\ LET doc == Head(rot.queue)
           rest == Tail(rot.queue)
       IN
       /\ rot' = IF rest = << >> THEN Idle ELSE [rot EXCEPT !.queue = rest]
       /\ IF rotator = "codeRotationService"
          THEN \E g \in generateHashedCode :
                 /\ orders' = [orders EXCEPT
                        ![doc.id].pickupCodeHash = g.hash,
                        ![doc.id].codeGeneratedAt = now,
                        ![doc.id].status = "confirmed"]
                 /\ lastIssued' = Issue(doc.id, g.plain, "rotation")
          ELSE IF NeedsRotation(doc, now)
          THEN \E g \in generateHashedCode :
                 /\ orders' = [orders EXCEPT
                        ![doc.id].pickupCodeHash = g.hash,
                        ![doc.id].pickupCodePlain = g.plain,
                        ![doc.id].codeGeneratedAt = now,
                        ![doc.id].status = "confirmed"]
                 /\ lastIssued' = Issue(doc.id, g.plain, "rotation")
          ELSE UNCHANGED << orders, lastIssued >>
    /\ UNCHANGED << now, observe, router, rotator, ratingIndex, isAvailable, repReq, pkgReq, pickedAt, stock, holds, ratings, resp, nextTick,
                    getReq, refReq, verReq, fbReq, resReq >>

RotateOrder ==
    /\ rot.pc = "scan"
    /\ LET doc == Head(rot.queue)
           rest == Tail(rot.queue)
       IN
       /\ rot' = IF rest = << >> THEN Idle ELSE [rot EXCEPT !.queue = rest]
       /\ IF rotator = "codeRotationService"
          THEN \E g \in generateHashedCode :
                 /\ orders' = [orders EXCEPT
                        ![doc.id].pickupCodeHash = g.hash,
                        ![doc.id].codeGeneratedAt = now]
                 /\ lastIssued' = Issue(doc.id, g.plain, "rotation")
          ELSE IF NeedsRotation(doc, now)
          THEN \E g \in generateHashedCode :
                 /\ orders' = [orders EXCEPT
                        ![doc.id].pickupCodeHash = g.hash,
                        ![doc.id].pickupCodePlain = g.plain,
                        ![doc.id].codeGeneratedAt = now]
                 /\ lastIssued' = Issue(doc.id, g.plain, "rotation")
          ELSE UNCHANGED << orders, lastIssued >>
    /\ UNCHANGED << now, observe, router, rotator, ratingIndex, isAvailable, repReq, pkgReq, pickedAt, stock, holds, ratings, resp, nextTick,
                    getReq, refReq, verReq, fbReq, resReq >>

(***************************************************************************)
(* The clock.  A due tick fires before time moves on.                      *)
(***************************************************************************)
\* The history keeps a generation only while it is within the validity window.
Forget(issued, t) ==
    [i \in 1..Len(issued) |->
        [c \in Codes |->
            IF issued[i][c].at # NoDate /\ Expired(issued[i][c].at, t)
            THEN NeverIssued ELSE issued[i][c]]]

Advance ==
    /\ rot.pc = "idle"
    /\ now < nextTick
    /\ now < MaxTime
    /\ now' = Min(Min(now + TimeStep, nextTick), MaxTime)
    /\ lastIssued' = Forget(lastIssued, now')
    /\ UNCHANGED << observe, router, rotator, ratingIndex, isAvailable, repReq, pkgReq, pickedAt, stock, holds, orders, ratings, resp,
                    nextTick, rot, getReq, refReq, verReq, fbReq, resReq >>

(***************************************************************************)
(* The reservation clock and the TTL index of the Reservation collection:  *)
(* the store removes a document some time after its expiresAt has passed.  *)
(***************************************************************************)
HoldStep == ReservationWindow \div 2

Elapse ==
    /\ now < MaxHoldSteps * HoldStep
    /\ now' = now + HoldStep
    /\ lastIssued' = Forget(lastIssued, now')
    /\ UNCHANGED << observe, router, rotator, ratingIndex, isAvailable, repReq, pickedAt, stock, holds, orders, ratings, resp,
                    nextTick, rot, getReq, refReq, verReq, fbReq, resReq, pkgReq >>

\* the clock of the feedback rules: it moves by half a grace period
GraceStep == GraceSeconds \div 2

ElapseGrace ==
    /\ now < MaxGraceSteps * GraceStep
    /\ now' = now + GraceStep
    /\ lastIssued' = Forget(lastIssued, now')
    /\ UNCHANGED << observe, router, rotator, ratingIndex, isAvailable, repReq, pickedAt, stock, holds, orders, ratings, resp,
                    nextTick, rot, getReq, refReq, verReq, fbReq, resReq, pkgReq >>

ReapHold ==
    /\ \E h \in holds :
         /\ h.expiresAt <= now
         /\ holds' = holds \ {h}
    /\ UNCHANGED << now, observe, router, rotator, ratingIndex, isAvailable, repReq, pickedAt, stock, orders, ratings, lastIssued, resp,
                    nextTick, rot, getReq, refReq, verReq, fbReq, resReq, pkgReq >>

(***************************************************************************)
(* Initial state: an empty store, the server just started.                 *)
(***************************************************************************)
Init ==
    /\ now = 0
    /\ router \in OrderRouters
    /\ rotator \in Rotators
    /\ ratingIndex \in RatingIndexes
    /\ stock \in [Packages -> 0..MaxStock]
    /\ isAvailable = [p \in Packages |-> TRUE]
    /\ holds = {}
    /\ orders = << >>
    /\ ratings = {}
    /\ lastIssued = << >>
    /\ pickedAt = << >>
    /\ resp = NoResp
    /\ observe \in BOOLEAN
    /\ nextTick = RotationPeriod
    /\ rot = Idle
    /\ getReq = [s \in OneSlot |-> Idle]
    /\ refReq = [s \in OneSlot |-> Idle]
    /\ verReq = [s \in VerifySlots |-> Idle]
    /\ fbReq = [s \in FeedbackSlots |-> Idle]
    /\ repReq = [s \in ReplySlots |-> Idle]
    /\ resReq = [s \in VerifySlots |-> Idle]
    /\ pkgReq = [s \in OneSlot |-> Idle]

\* await order.save() throws: the catch block answers 500, after the Rating
\* was created
FeedbackSaveFails(s) ==
    /\ fbReq[s].pc = "save"
    /\ fbReq' = [fbReq EXCEPT ![s] = Idle]
    /\ resp' = Response("feedback", 500, fbReq[s].order)
    /\ UNCHANGED << now, observe, router, rotator, ratingIndex, isAvailable, repReq, pkgReq, pickedAt, stock, holds,
                    orders, ratings, lastIssued, nextTick, rot, getReq, refReq, verReq,
                    resReq >>

(***************************************************************************)
(* POST /:id/reply                                                         *)
(***************************************************************************)
RatingsOf(id) == {r \in ratings : r.order = id}

\* the fields that identify a stored Rating document
RatingKey(r) == << r.order, r.customer, r.package >>

\* the guards of the handler on the document that Rating.findOne returned
ReplyOutcome(user, id, reply, found) ==
    IF Role(user) # "company"
    THEN Done(403, NoOrder)
    ELSE IF reply = NoReply
    THEN Done(400, NoOrder)
    ELSE IF found = {}
    THEN Done(404, NoOrder)
    ELSE LET rating == CHOOSE r \in found : TRUE IN
         IF rating.company # user
         THEN Done(403, id)
         ELSE IF rating.companyReply # NoReply
         THEN Done(400, id)
         ELSE [ pc |-> "save", order |-> id, user |-> user, reply |-> reply,
                key |-> RatingKey(rating) ]

\* Rating.findOne({ order }) and the guards
ReplyFind(s, user, id, reply) ==
    /\ Free(repReq, s)
    /\ \E found \in IF RatingsOf(id) = {} THEN {{}} ELSE {{r} : r \in RatingsOf(id)} :
          /\ repReq' = [repReq EXCEPT ![s] = Slot(ReplyOutcome(user, id, reply, found))]
          /\ resp' = Answer("reply", ReplyOutcome(user, id, reply, found))
    /\ UNCHANGED << now, observe, router, rotator, ratingIndex, isAvailable, pkgReq, pickedAt, stock, holds,
                    orders, ratings, lastIssued, nextTick, rot, getReq, refReq, verReq,
                    fbReq, resReq >>

\* rating.companyReply = reply.trim(); await rating.save(), that writes the
\* one modified path of the document the handler holds
ReplySave(s) ==
    /\ repReq[s].pc = "save"
    /\ ratings' = { IF RatingKey(r) = repReq[s].key
                    THEN [r EXCEPT !.companyReply = repReq[s].reply]
                    ELSE r : r \in ratings }
    /\ repReq' = [repReq EXCEPT ![s] = Idle]
    /\ resp' = Response("reply", 200, repReq[s].order)
    /\ UNCHANGED << now, observe, router, rotator, ratingIndex, isAvailable, pkgReq, pickedAt, stock, holds,
                    orders, lastIssued, nextTick, rot, getReq, refReq, verReq,
                    fbReq, resReq >>

(***************************************************************************)
(* The pickup-code life cycle of one order: every writer of the code       *)
(* fields, redemption, the rotation service and the clock.                 *)
(***************************************************************************)
InitCode ==
    /\ Init
    /\ ratingIndex = "orderCustomer"
    /\ observe
    /\ stock = [p \in Packages |-> MaxStock]

FirstOrder ==
    /\ orders = << >>
    /\ CreateOrder("alice", "kiosk", << [package |-> "p1", quantity |-> 1] >>, 1)

NextCode ==
    \/ FirstOrder
    \/ GetCodeFind("r1", "alice", 1)
    \/ GetCodeSave("r1")
    \/ RefreshCodeFind("r1", "kiosk", 1)
    \/ RefreshCodeSave("r1")
    \/ \E code \in Codes : VerifyPinScan("v1", "kiosk", code)
    \/ \E code \in Codes : VerifyCodeFind("v1", "kiosk", 1, code)
    \/ VerifySave("v1")
    \/ RotationTick
    \/ RotateOrder
    \/ Advance

SpecCode == InitCode /\ [][NextCode]_vars

\* the writers of the code fields, with fetches of the code by any caller
NextFetch ==
    \/ FirstOrder
    \/ \E user \in Users : GetCodeFind("r1", user, 1)
    \/ GetCodeSave("r1")
    \/ RefreshCodeFind("r1", "kiosk", 1)
    \/ RefreshCodeSave("r1")
    \/ RotationTick
    \/ RotateOrder
    \/ Advance

SpecFetch == InitCode /\ [][NextFetch]_vars

(***************************************************************************)
(* The same life cycle without the history variables.                      *)
(***************************************************************************)
InitRotation ==
    /\ Init
    /\ ratingIndex = "orderCustomer"
    /\ ~observe
    /\ stock = [p \in Packages |-> MaxStock]

SpecRotation == InitRotation /\ [][NextCode]_vars

\* the life cycle with a feedback request of alice running beside it
NextFrame ==
    \/ NextCode
    \/ FeedbackFind("r1", "alice", 1, 5)
    \/ FeedbackCheck("r1")
    \/ FeedbackCreate("r1")
    \/ FeedbackSave("r1")

SpecFrame == InitRotation /\ [][NextFrame]_vars

(***************************************************************************)
(* The status of one order: two redemption requests and a feedback request *)
(* in flight at once.  The clock stands still.                             *)
(***************************************************************************)
NextStatus ==
    \/ FirstOrder
    \/ GetCodeFind("r1", "alice", 1)
    \/ GetCodeSave("r1")
    \/ \E s \in VerifySlots, code \in Codes : VerifyPinScan(s, "kiosk", code)
    \/ \E s \in VerifySlots, code \in Codes : VerifyCodeFind(s, "kiosk", 1, code)
    \/ \E s \in VerifySlots : VerifySave(s)
    \/ FeedbackFind("r1", "alice", 1, 5)
    \/ FeedbackCheck("r1")
    \/ FeedbackCreate("r1")
    \/ FeedbackSave("r1")

SpecStatus == InitRotation /\ [][NextStatus]_vars

\* the same requests over a store whose save of the order can fail
NextOutcome ==
    \/ NextStatus
    \/ FeedbackSaveFails("r1")

SpecOutcome == InitRotation /\ [][NextOutcome]_vars

(***************************************************************************)
(* The seller's reply: one order is placed, redeemed and rated, and two    *)
(* reply requests can be in flight at once.  The clock stands still.       *)
(***************************************************************************)
NextReply ==
    \/ FirstOrder
    \/ GetCodeFind("r1", "alice", 1)
    \/ GetCodeSave("r1")
    \/ \E code \in Codes : VerifyPinScan("v1", "kiosk", code)
    \/ \E code \in Codes : VerifyCodeFind("v1", "kiosk", 1, code)
    \/ VerifySave("v1")
    \/ FeedbackFind("r1", "alice", 1, 5)
    \/ FeedbackCheck("r1")
    \/ FeedbackCreate("r1")
    \/ FeedbackSave("r1")
    \/ \E s \in ReplySlots, user \in Users, reply \in Replies \cup {NoReply} :
          ReplyFind(s, user, 1, reply)
    \/ \E s \in ReplySlots : ReplySave(s)

SpecReply == InitCode /\ [][NextReply]_vars

(***************************************************************************)
(* Feedback on one order of alice: the order is committed, its code is     *)
(* issued and redeemed, days pass, and two feedback requests of alice run  *)
(* side by side, under either revision of the router.                      *)
(***************************************************************************)
InitFeedback ==
    /\ Init
    /\ observe
    /\ rotator = "codeRotationService"
    /\ \A p \in Packages : stock[p] = MaxStock

\* alice's order of two packages
FirstPairOrder ==
    /\ orders = << >>
    /\ CreateOrder("alice", "kiosk",
                   << [package |-> "p1", quantity |-> 1],
                      [package |-> "p2", quantity |-> 1] >>, 1)

NextFeedback ==
    \/ FirstOrder
    \/ FirstPairOrder
    \/ GetCodeFind("r1", "alice", 1)
    \/ GetCodeSave("r1")
    \/ \E code \in Codes : VerifyPinScan("v1", "kiosk", code)
    \/ \E code \in Codes : VerifyCodeFind("v1", "kiosk", 1, code)
    \/ VerifySave("v1")
    \/ \E s \in FeedbackSlots : FeedbackFind(s, "alice", 1, 5)
    \/ \E s \in FeedbackSlots : FeedbackCheck(s)
    \/ \E s \in FeedbackSlots : FeedbackCreate(s)
    \/ \E s \in FeedbackSlots : FeedbackSave(s)
    \/ ElapseGrace

SpecFeedback == InitFeedback /\ [][NextFeedback]_vars

(***************************************************************************)
(* Order commits: customers create orders from carts while another         *)
(* customer holds and releases stock of a package.  The clock stands       *)
(* still, so every hold is unexpired.                                      *)
(***************************************************************************)
InitCommit ==
    /\ Init
    /\ ratingIndex = "orderCustomer"
    /\ ~observe
    /\ router = "orderRoutes"
    /\ rotator = "codeRotationService"

NextCommit ==
    \/ \E user \in Customers, items \in Carts :
            CreateOrder(user, "kiosk", items, 1)
    \/ CreateOrder("kiosk", "kiosk", NoItems, 1)
    \/ \E company \in {"kiosk", NoCompany}, totalAmount \in 0..1 :
            CreateOrder("alice", company, NoItems, totalAmount)
    \/ \E user \in {"bob", "kiosk"}, quantity \in 0..MaxQty :
            ReserveFind("v1", user, "p1", quantity)
    \/ ReserveMaps("v1")
    \/ ReserveWrite("v1")
    \/ ReserveReply("v1")

SpecCommit == InitCommit /\ [][NextCommit]_vars

\* order commits that may also name bakery, which owns none of the packages,
\* as the seller
NextSeller ==
    \/ NextCommit
    \/ CreateOrder("alice", "bakery", << [package |-> "p1", quantity |-> 1] >>, 1)

SpecSeller == InitCommit /\ [][NextSeller]_vars

(***************************************************************************)
(* The race for the last unit: the same commits, every stock at one.       *)
(***************************************************************************)
InitRace ==
    /\ InitCommit
    /\ stock = [p \in Packages |-> 1]

SpecRace == InitRace /\ [][NextCommit]_vars

(***************************************************************************)
(* Reservations: two customers hold and release stock of a package while   *)
(* the packages are observed, time passes and the store reaps expired      *)
(* holds.  No handler writes Package.stock here.                           *)
(***************************************************************************)
InitReserve ==
    /\ Init
    /\ ratingIndex = "orderCustomer"
    /\ observe
    /\ router = "orderRoutes"
    /\ rotator = "codeRotationService"
    /\ stock["p2"] = MaxStock

NextReserve ==
    \/ \E quantity \in 0..MaxQty : ReserveFind("v1", "alice", "p1", quantity)
    \/ \E quantity \in 0..MaxQty : ReserveFind("v2", "bob", "p1", quantity)
    \/ ReserveFind("v2", "kiosk", "p1", 1)
    \/ \E s \in VerifySlots : ReserveMaps(s)
    \/ \E s \in VerifySlots : ReserveWrite(s)
    \/ \E s \in VerifySlots : ReserveReply(s)
    \/ PackageListFind("r1", "bob")
    \/ \E user \in {"kiosk", "bob"} : CompanyListFind("r1", user)
    \/ PackageListReply("r1")
    \/ PackageDetailsFind("r1", "alice", "p1")
    \/ PackageDetailsReply("r1")
    \/ Elapse
    \/ ReapHold

SpecReserve == InitReserve /\ [][NextReserve]_vars

(***************************************************************************)
(* Holds on one package: alice reserves p1 in two requests at once, bob in *)
(* a third, the seller takes the package off sale and puts it back, time   *)
(* passes and the store evicts expired holds.                              *)
(***************************************************************************)
HoldSlots == {"v1", "v2"}

NextHold ==
    \/ \E s \in HoldSlots, quantity \in 0..MaxQty :
            ReserveFind(s, "alice", "p1", quantity)
    \/ \E quantity \in 0..MaxQty : ReserveFind("v2", "bob", "p1", quantity)
    \/ \E s \in HoldSlots : ReserveMaps(s)
    \/ \E s \in HoldSlots : ReserveWrite(s)
    \/ \E s \in HoldSlots : ReserveReply(s)
    \/ \E flag \in BOOLEAN : UpdatePackage("kiosk", "p1", flag)
    \/ UpdatePackage("bakery", "p1", FALSE)
    \/ Elapse
    \/ ReapHold

SpecHold == InitReserve /\ [][NextHold]_vars

(***************************************************************************)
(* The seller marks a confirmed order as ready for pickup.  No handler of  *)
(* the routers sets this status; the order schema and the redemption       *)
(* filter know it, and the order state machine has the edge.               *)
(***************************************************************************)
MarkReady(id) ==
    /\ id \in OrderIds
    /\ orders[id].status = "confirmed"
    /\ orders' = [orders EXCEPT ![id].status = "ready"]
    /\ UNCHANGED << now, observe, router, rotator, ratingIndex, isAvailable, repReq, pkgReq, pickedAt, stock, holds, ratings, lastIssued, resp,
                    nextTick, rot, getReq, refReq, verReq, fbReq, resReq >>

\* the code life cycle of an order that may become ready
NextSupply ==
    \/ NextCode
    \/ MarkReady(1)

SpecSupply == InitRotation /\ [][NextSupply]_vars

(***************************************************************************)
(* Properties of the pickup-code life cycle.                               *)
(***************************************************************************)
Awaiting(id) == orders[id].status \in {"confirmed", "ready"}

\* what redemption checks of one order when `code` is presented at time t
Accepts(id, code, t) ==
    IF router = "orderRoutes"
    THEN PinMatches(orders[id], code, t)
    ELSE /\ ~(orders[id].codeGeneratedAt # NoDate /\ Expired(orders[id].codeGeneratedAt, t))
         /\ isValidCode(code, orders[id].pickupCodeHash)

GeneratedWithinWindow(id, code, t) ==
    /\ lastIssued[id][code].at # NoDate
    /\ ~Expired(lastIssued[id][code].at, t)

\* C5: when POST /verify-pin matches an order with a presented code, that code
\* was generated for that order no more than the validity window ago: a code
\* whose window has elapsed never verifies again, whatever rotations, fetches or
\* refreshes happened in between.
C5_ExpiredCodeNeverVerifies ==
    [][ \A s \in VerifySlots :
          ( /\ router = "orderRoutes"
            /\ verReq[s].pc = "idle"
            /\ verReq'[s].pc = "save" )
          => GeneratedWithinWindow(verReq'[s].order, verReq'[s].code, now) ]_vars

\* C8: a code generated for an order awaiting pickup by the rotation service
\* or by GET /:id/code is accepted by redemption at every moment of its
\* validity window, as long as the order has not been redeemed.
C8_FreshCodeVerifies ==
    \A id \in OrderIds, code \in Codes :
        ( /\ Awaiting(id)
          /\ lastIssued[id][code].by \in {"rotation", "get"}
          /\ GeneratedWithinWindow(id, code, now) )
        => Accepts(id, code, now)

CodeFields(o) == << o.pickupCodeHash, o.pickupCodePlain, o.codeGeneratedAt >>

\* C9: on a tick, an order awaiting pickup gets a new code if and only if it
\* has no code or its code is older than the validity window; an order whose
\* code is within its window keeps hash, plaintext and generation time.
C9_TickRotatesIffNeeded ==
    [][ ( /\ rot.pc = "scan"
          /\ rot' # rot
          /\ orders[Head(rot.queue).id].status \in {"pending", "confirmed"} )
        => LET id == Head(rot.queue).id IN
           ( CodeFields(orders'[id]) # CodeFields(orders[id]) )
           <=> ( \/ orders[id].pickupCodeHash = NoHash
                 \/ Expired(orders[id].codeGeneratedAt, now) ) ]_vars

HasValidCode(o, t) ==
    /\ o.pickupCodeHash # NoHash
    /\ o.codeGeneratedAt # NoDate
    /\ ~Expired(o.codeGeneratedAt, t)

\* the orders a scan is still going to visit
Queued(r) == IF r.pc = "scan" THEN { r.queue[k].id : k \in 1..Len(r.queue) } ELSE {}

\* C11: every tick of the rotation service takes up every order from which
\* redemption is still possible (confirmed or ready) and that has no code or an
\* expired code, and its visit leaves such an order with a currently valid
\* code: as long as ticks fire, these orders are eventually supplied.
C11_TickSuppliesAwaitingOrders ==
    [][ /\ ( rot.pc = "idle" /\ nextTick' # nextTick )
           => \A id \in OrderIds :
                 ( Awaiting(id) /\ ~HasValidCode(orders[id], now) )
                 => id \in Queued(rot')
        /\ ( rot.pc = "scan" /\ rot' # rot )
           => LET id == Head(rot.queue).id IN
              ( Awaiting(id) /\ ~HasValidCode(orders[id], now) )
              => HasValidCode(orders'[id], now) ]_vars

(***************************************************************************)
(* Properties of the order status.                                         *)
(***************************************************************************)
StatusRank(status) ==
    CASE status = "pending" -> 0
      [] status = "confirmed" -> 1
      [] status = "ready" -> 2
      [] status = "picked" -> 3
      [] status = "completed" -> 4
      [] status = "cancelled" -> 5

\* C6: a successful redemption moves the matched order from confirmed or ready
\* to picked, and an attempt that starts when the order is already picked or
\* completed does not match it.
C6_RedeemedOnce ==
    [][ \A s \in VerifySlots :
          /\ ( verReq[s].pc = "save" /\ verReq'[s].pc = "idle" )
             => ( /\ Awaiting(verReq[s].order)
                  /\ orders'[verReq[s].order].status = "picked" )
          /\ ( verReq[s].pc = "idle" /\ verReq'[s].pc = "save" )
             => Awaiting(verReq'[s].order) ]_vars

\* C7: a consequence of the claimed state machine: every change of an order's
\* status moves forward along pending, confirmed, ready, picked, completed, or
\* to cancelled from a status before picked; a picked or completed order never
\* returns to an earlier status.
C7_StatusMovesForward ==
    [][ \A id \in OrderIds :
          orders'[id].status # orders[id].status
          => IF orders'[id].status = "cancelled"
             THEN StatusRank(orders[id].status) < 3
             ELSE StatusRank(orders'[id].status) > StatusRank(orders[id].status) ]_vars

\* the fields of an order that are not its code
OtherFields(o) ==
    << o.customer, o.company, o.items, o.totalAmount, o.status, o.createdAt >>

\* C22: the write of a rotation tick to an order changes the order's code
\* fields only: its status, items, total, parties and creation time stay, no
\* other order changes and no order disappears, also when a redemption or a
\* feedback request for the order ran between the tick's read and this write.
C22_TickChangesOnlyCodeFields ==
    [][ ( rot.pc = "scan" /\ rot' # rot )
        => /\ Len(orders') = Len(orders)
           /\ \A id \in OrderIds :
                 IF id = Head(rot.queue).id
                 THEN OtherFields(orders'[id]) = OtherFields(orders[id])
                 ELSE orders'[id] = orders[id] ]_vars

\* C22: the tick has read an order that a redemption and a feedback request
\* have since moved to completed, and its write is about to happen
C22_Witness ==
    /\ rot.pc = "scan"
    /\ orders[Head(rot.queue).id].status = "completed"

\* the stored code of order id is present, within its window at t, and is the
\* presented code
MatchesStoredCode(id, code, t) ==
    /\ orders[id].pickupCodeHash # NoHash
    /\ orders[id].codeGeneratedAt # NoDate
    /\ ~Expired(orders[id].codeGeneratedAt, t)
    /\ \/ isValidCode(code, orders[id].pickupCodeHash)
       \/ orders[id].pickupCodePlain = code

\* C21: a redemption request of a company matches, and then marks picked, only
\* an order of that company that is confirmed or ready and whose stored code
\* is present, no older than the validity window and equal to the presented
\* code; the request changes no other order, and a request that matches
\* nothing changes no order.
C21_RedemptionMarksOnlyMatchingOrder ==
    [][ \A s \in VerifySlots :
          /\ ( verReq[s].pc = "idle" /\ verReq'[s].pc = "save" )
             => /\ orders[verReq'[s].order].company = verReq'[s].user
                /\ Awaiting(verReq'[s].order)
                /\ MatchesStoredCode(verReq'[s].order, verReq'[s].code, now)
                /\ orders' = orders
          /\ ( verReq[s].pc = "save" /\ verReq'[s].pc = "idle" )
             => /\ Awaiting(verReq[s].order)
                /\ orders'[verReq[s].order].status = "picked"
                /\ \A id \in OrderIds :
                      id # verReq[s].order => orders'[id] = orders[id]
          /\ ( verReq'[s] = verReq[s] /\ resp' # resp /\ resp'.op = "verify" )
             => orders' = orders ]_vars

\* the caller may fetch the code of order id
OwnsOrder(user, id) == Role(user) = "customer" /\ orders[id].customer = user

\* C25: GET /:id/code answers an authorization error, and leaves the order
\* alone, for every caller but the customer who owns the order; and while the
\* order's stored code is within its window the owner's fetch generates
\* nothing and answers with that code and the time it remains valid.
C25_FetchOwnerOnlyAndStable ==
    [][ \A s \in OneSlot, user \in Users, id \in OrderIds :
          GetCodeFind(s, user, id)
          => IF ~OwnsOrder(user, id)
             THEN /\ resp'.op = "getCode" /\ resp'.status = 403
                  /\ getReq'[s].pc = "idle"
                  /\ orders' = orders
             ELSE HasValidCode(orders[id], now)
                  => /\ getReq'[s].pc = "idle"
                     /\ orders' = orders
                     /\ resp'.op = "getCode" /\ resp'.status = 200
                     /\ isValidCode(resp'.pickupCode, orders[id].pickupCodeHash)
                     /\ resp'.expiresIn =
                            ValidityWindow - (now - orders[id].codeGeneratedAt) ]_vars

(***************************************************************************)
(* Properties of reservations.                                             *)
(***************************************************************************)
\* the sum of the quantities of the holds on p whose expiry is later than t
RECURSIVE HeldAt(_, _, _)
HeldAt(p, t, docs) ==
    IF docs = {} THEN 0
    ELSE LET h == CHOOSE x \in docs : TRUE
         IN (IF h.package = p /\ h.expiresAt > t THEN h.quantity ELSE 0)
            + HeldAt(p, t, docs \ {h})

TrueAvailability(p) == Max(0, stock[p] - HeldAt(p, now, holds))

\* C12: whenever a package list, a company list, the package details or a
\* successful reserve request is answered, the availableStock reported for a
\* package is max(0, stock - the quantities of all holds on it whose expiry is
\* later than now); an expired hold that is still stored counts for nothing.
C12_ReportedAvailability ==
    [][ /\ \A s \in OneSlot :
             /\ ( pkgReq[s].pc = "list" /\ pkgReq'[s].pc = "idle" )
                => \A p \in pkgReq[s].packages :
                       resp'.packages[p].availableStock = TrueAvailability(p)
             /\ ( pkgReq[s].pc = "details" /\ pkgReq'[s].pc = "idle" )
                => resp'.availableStock = TrueAvailability(pkgReq[s].package)
        /\ \A s \in VerifySlots :
             ( resReq[s].pc = "reply" /\ resReq'[s].pc = "idle" )
             => resp'.availableStock = TrueAvailability(resReq[s].package) ]_vars

\* an observation is being answered while an expired hold is still stored
C12_Witness ==
    /\ resp.op \in {"listPackages", "getPackage"}
    /\ resp.status = 200
    /\ \E h \in holds : h.package = "p1" /\ h.expiresAt <= now
    /\ \E h \in holds : h.package = "p1" /\ h.expiresAt > now

OthersHeld(p, c) == HeldAt(p, now, { h \in holds : h.customer # c })

OwnHeld(p, c) == HeldAt(p, now, { h \in holds : h.customer = c })

\* a reserve request of some slot passes from the availability check to its write
PassesCheck(s) == resReq[s].pc = "maps" /\ resReq'[s].pc = "write"

FailsCheck(s) == resReq[s].pc = "maps" /\ resReq'[s].pc = "idle"

\* C13 as claimed: wherever an availability is computed for a customer c, in
\* the reserve check and in the answer of GET /:id to c, it is the stock minus
\* the unexpired holds of the customers other than c.
C13_AvailabilityForCustomer ==
    [][ /\ \A s \in VerifySlots :
             ( resReq[s].pc = "maps" /\ resReq'[s] # resReq[s] /\ resReq[s].quantity > 0 )
             => ( PassesCheck(s) <=>
                    resReq[s].quantity <=
                        stock[resReq[s].package]
                            - OthersHeld(resReq[s].package, resReq[s].customer) )
        /\ \A s \in OneSlot :
             ( pkgReq[s].pc = "details" /\ pkgReq'[s].pc = "idle" )
             => resp'.availableStock =
                    Max(0, stock[pkgReq[s].package]
                               - OthersHeld(pkgReq[s].package, pkgReq[s].user)) ]_vars

\* C13 amended: the reserve check computes the availability for c as the stock
\* minus the unexpired holds of the other customers, so that c's own hold never
\* counts against c; GET /:id reports the availability net of every unexpired
\* hold, c's own included, and c's own unexpired hold as reservedByCurrentUser.
C13_OwnHoldNotCounted ==
    [][ /\ \A s \in VerifySlots :
             ( resReq[s].pc = "maps" /\ resReq'[s] # resReq[s] /\ resReq[s].quantity > 0 )
             => ( PassesCheck(s) <=>
                    resReq[s].quantity <=
                        stock[resReq[s].package]
                            - OthersHeld(resReq[s].package, resReq[s].customer) )
        /\ \A s \in OneSlot :
             ( pkgReq[s].pc = "details" /\ pkgReq'[s].pc = "idle" )
             => /\ resp'.availableStock = TrueAvailability(pkgReq[s].package)
                /\ resp'.reservedByCurrentUser =
                       OwnHeld(pkgReq[s].package, pkgReq[s].user) ]_vars

\* a customer's request passed the check although their own hold together
\* with the request exceeds what the stock leaves
C13_Witness ==
    \E s \in VerifySlots :
        /\ resReq[s].pc = "write"
        /\ resReq[s].quantity > 0
        /\ OwnHeld(resReq[s].package, resReq[s].customer) > 0
        /\ OthersHeld(resReq[s].package, resReq[s].customer) > 0
        /\ resReq[s].quantity >
               stock[resReq[s].package] - HeldAt(resReq[s].package, now, holds)

HoldsOf(docs, p, c) == { h \in docs : h.package = p /\ h.customer = c }

Committed == Len(orders') = Len(orders) + 1

NewestOrder == orders'[Len(orders')]

\* stock minus the unexpired holds of the other customers
Availability(p, customer) ==
    stock[p] - (reservedTotals(p, now) - reservedByCustomer(p, customer, now))

\* C1: after any sequence of order commits, interleaved in any way, the stock
\* of every package is at least zero.
C1_StockNeverNegative ==
    \A p \in Packages : stock[p] >= 0

\* an order was committed for more units of a package than its stock holds
C1_Witness ==
    \E id \in OrderIds, p \in Packages :
        CartQty(orders[id].items, p) > stock[p]

\* the orders that hold exactly one unit of package p
TookOne(p) == { id \in OrderIds : CartQty(orders[id].items, p) = 1 }

\* C2: when the stock of every package is one and customers commit for one
\* unit each, at most one of the commits succeeds, and once one has succeeded
\* the stock is the stock before the race minus the successful quantity: zero.
C2_LastUnitCommittedOnce ==
    \A p \in Packages :
        /\ Cardinality(TookOne(p)) <= 1
        /\ Cardinality(TookOne(p)) = 1 => stock[p] = 0

\* C3: a commit in which some item asks for more than is available (the stock
\* minus the unexpired holds of other customers) creates no order and leaves
\* every stock as it was.
C3_CommitWithinAvailability ==
    [][ /\ Committed =>
            \A p \in Packages :
                CartQty(NewestOrder.items, p) <= Availability(p, NewestOrder.customer)
        /\ ~Committed => stock' = stock ]_vars

\* C4: a commit of several items either takes every item off the stock or
\* none: an order of several items is created only if the stock covers each of
\* them, all of them are then taken off, and once a commit has ended without
\* an order no stock differs from before.
C4_MultiItemAllOrNothing ==
    [][ ( Committed /\ Len(NewestOrder.items) > 1 )
        => /\ \A i \in 1..Len(NewestOrder.items) :
                 stock[NewestOrder.items[i].package] >= NewestOrder.items[i].quantity
           /\ \A i \in 1..Len(NewestOrder.items) :
                 stock'[NewestOrder.items[i].package] =
                     stock[NewestOrder.items[i].package] - NewestOrder.items[i].quantity ]_vars

\* C18: a successful commit takes the quantity of every committed package off
\* its stock, deletes the committing customer's holds on the committed
\* packages and leaves the holds of the other customers as they are.
C18_CommitTakesStockAndHolds ==
    [][ Committed =>
          /\ \A p \in Packages :
                stock'[p] = stock[p] - CartQty(NewestOrder.items, p)
          /\ \A h \in holds :
                IF h.customer = NewestOrder.customer
                   /\ CartQty(NewestOrder.items, h.package) > 0
                THEN h \notin holds'
                ELSE h \in holds' ]_vars

\* C19: an order created by a successful commit has status confirmed and
\* carries its first pickup code, a stored hash and a generation time, and the
\* answer to the commit returns the plaintext of that code.
C19_CommitIssuesFirstCode ==
    [][ Committed =>
          /\ NewestOrder.status = "confirmed"
          /\ NewestOrder.pickupCodeHash # NoHash
          /\ NewestOrder.codeGeneratedAt = now
          /\ resp'.op = "createOrder"
          /\ "code" \in DOMAIN resp'
          /\ isValidCode(resp'.code, NewestOrder.pickupCodeHash) ]_vars

\* C20: in every stored order all line items are packages of one single
\* company and that company is the order's seller; a commit whose packages are
\* not all owned by the one seller therefore stores no order.
C20_ItemsOfOneSeller ==
    \A id \in OrderIds :
        \A k \in 1..Len(orders[id].items) :
            PackageCompany(orders[id].items[k].package) = orders[id].company

(***************************************************************************)
(* Properties of feedback.                                                 *)
(***************************************************************************)
\* the grace window of order id, counted from its redemption, is over at t
OutsideGrace(id, t) ==
    /\ pickedAt[id] # NoDate
    /\ t > pickedAt[id] + GraceSeconds

\* slot s takes a step of the feedback handler
FeedbackStep(s) == fbReq'[s] # fbReq[s]

\* C15: a feedback submission is rejected, creates no Rating and leaves the
\* order's status alone whenever the order is not picked, the grace window
\* after the pickup is over, or a Rating of the customer for the order exists:
\* the handler goes on to its writes only for a picked order inside the grace
\* window, goes past the look-up only when no Rating exists, and a request
\* answered with a rejection has written nothing.
C15_FeedbackRejected ==
    [][ \A s \in FeedbackSlots :
          /\ ( fbReq[s].pc = "idle" /\ fbReq'[s].pc = "check" )
             => /\ orders[fbReq'[s].order].status = "picked"
                /\ ~OutsideGrace(fbReq'[s].order, now)
          /\ ( fbReq[s].pc = "check" /\ fbReq'[s].pc = "create" )
             => ~HasRating(fbReq[s].order, fbReq[s].user)
          /\ ( FeedbackStep(s) /\ fbReq[s].pc = "create"
               /\ HasRating(fbReq[s].order, fbReq[s].user) )
             => ratings' = ratings /\ orders' = orders /\ fbReq'[s].pc = "idle"
          /\ ( resp' # resp /\ resp'.op = "feedback" /\ resp'.status \in {400, 403, 404} )
             => ratings' = ratings /\ orders' = orders ]_vars

\* the feedback handler turns down, at its checks of the order, a request for
\* order id that is picked
TurnedDownPicked(id) ==
    /\ fbReq' = fbReq
    /\ resp' # resp
    /\ resp'.op = "feedback"
    /\ resp'.status = 400
    /\ resp'.order = id
    /\ orders[id].status = "picked"

\* C16: the grace period runs from the pickup: the owner's rating of a picked
\* order passes the checks of the order at any time up to seven days after
\* the pickup, and at no later time; the rating, once accepted, moves the order
\* from picked to completed.
C16_GraceFromPickup ==
    [][ /\ \A id \in OrderIds : TurnedDownPicked(id) => OutsideGrace(id, now)
        /\ \A s \in FeedbackSlots :
             /\ ( fbReq[s].pc = "idle" /\ fbReq'[s].pc = "check" )
                => ~OutsideGrace(fbReq'[s].order, now)
             /\ ( fbReq[s].pc = "save" /\ FeedbackStep(s) )
                => /\ orders[fbReq[s].order].status = "picked"
                   /\ orders'[fbReq[s].order].status = "completed" ]_vars

\* C17: in every reachable state there is at most one Rating per order and
\* customer, also when the customer's feedback for the same picked order
\* arrives in two requests that run side by side.
C17_OneRatingPerOrderAndCustomer ==
    \A r1 \in ratings, r2 \in ratings :
        ( r1.order = r2.order /\ r1.customer = r2.customer ) => r1 = r2

(***************************************************************************)
(* Properties of holds.                                                    *)
(***************************************************************************)
\* C23: a reserve request of a customer with quantity 0 always deletes the
\* customer's hold on the package: the request is never turned down, and
\* after its write the customer has no hold on the package while every hold
\* of every other customer, and every hold on another package, is as before.
C23_ReserveZeroDeletes ==
    [][ \A s \in HoldSlots :
          /\ \A c \in Customers, p \in Packages :
                ReserveFind(s, c, p, 0) => resReq'[s].pc = "maps"
          /\ ( resReq[s].pc = "maps" /\ resReq[s].quantity = 0
               /\ resReq'[s] # resReq[s] )
             => resReq'[s].pc = "write"
          /\ ( resReq[s].pc = "write" /\ resReq[s].quantity = 0
               /\ resReq'[s] # resReq[s] )
             => /\ HoldsOf(holds', resReq[s].package, resReq[s].customer) = {}
                /\ holds' = holds \ HoldsOf(holds, resReq[s].package, resReq[s].customer) ]_vars

\* C24: in every reachable state there is at most one reservation per package
\* and customer, also when the customer's two reserve requests for the
\* package run side by side.
C24_OneHoldPerPackageAndCustomer ==
    \A h1 \in holds, h2 \in holds :
        ( h1.package = h2.package /\ h1.customer = h2.customer ) => h1 = h2

\* C24: two requests of alice for p1 with different quantities have both
\* written, and alice holds p1
C24_Witness ==
    /\ \A s \in HoldSlots :
          /\ resReq[s].pc = "reply"
          /\ resReq[s].customer = "alice"
          /\ resReq[s].quantity > 0
    /\ resReq["v1"].quantity # resReq["v2"].quantity
    /\ HoldsOf(holds, "p1", "alice") # {}


(***************************************************************************)
(* Properties of the seller's reply                                        *)
(***************************************************************************)
\* C26: a seller's reply to a rating is set exactly once: a reply request for
\* an order whose rating already has a reply is rejected and leaves the stored
\* reply unchanged, and only the company the rating belongs to can set it: no
\* step changes a stored reply that is not empty, a step that sets a reply is
\* the save of a request of the rating's company, and a reply request is
\* answered 200 only after a save that set the reply of a rating without one
C26_ReplySetOnce ==
    [][ /\ \A r \in ratings : r.companyReply # NoReply => r \in ratings'
        /\ \A r \in ratings : r \notin ratings' =>
              \E s \in ReplySlots :
                 /\ repReq[s].pc = "save"
                 /\ repReq'[s] = Idle
                 /\ repReq[s].user = r.company
                 /\ RatingKey(r) = repReq[s].key
        /\ \A s \in ReplySlots, user \in Users, reply \in Replies \cup {NoReply} :
              ( /\ ReplyFind(s, user, 1, reply)
                /\ \A r \in RatingsOf(1) : r.companyReply # NoReply \/ r.company # user )
              => /\ repReq'[s] = Idle
                 /\ resp'.status \in {400, 403, 404} ]_vars

(***************************************************************************)
(* Properties of concurrent requests                                       *)
(***************************************************************************)
\* C27: of two redemption requests that present the same valid code for the
\* same open order and run concurrently, at most one reports success: the two
\* requests are never both past the match of the same order with the same
\* code, from where each saves the status picked and answers success.
C27_OneRedemptionSucceeds ==
    \A s \in VerifySlots, t \in VerifySlots :
       ( /\ s # t
         /\ verReq[s].pc = "save"
         /\ verReq[t].pc = "save"
         /\ verReq[s].order = verReq[t].order )
       => verReq[s].code # verReq[t].code

(***************************************************************************)
(* Properties of the plaintext cache                                       *)
(***************************************************************************)
\* C28: in every reachable state in which an order has both a pickup-code
\* hash and a plaintext cache, the cached plaintext is the code that the
\* stored hash was computed from, after any sequence of rotations, fetches of
\* the code and manual refreshes.
C28_CacheMatchesHash ==
    \A id \in OrderIds :
       ( orders[id].pickupCodeHash # NoHash /\ orders[id].pickupCodePlain # NoPlain )
       => isValidCode(orders[id].pickupCodePlain, orders[id].pickupCodeHash)

(***************************************************************************)
(* Properties of the completed status                                      *)
(***************************************************************************)
\* C29: whenever no feedback request is in flight, an order has status
\* completed if and only if a Rating by its customer exists for it, also after
\* a store failure between the creation of the Rating and the save of the
\* status, and after a redemption write that raced with the feedback.
C29_CompletedIffRated ==
    ( \A s \in FeedbackSlots : fbReq[s] = Idle )
    => \A id \in OrderIds :
          orders[id].status = "completed" <=> HasRating(id, orders[id].customer)

(***************************************************************************)
(* Properties of the held quantity                                         *)
(***************************************************************************)
\* C30: for a package whose stock does not change, the sum of the quantities
\* of all active holds on it, those whose expiry is later than now, never
\* exceeds its stock, after any interleaving of reserve requests by different
\* customers.
C30_HoldsWithinStock ==
    \A p \in Packages : HeldAt(p, now, holds) <= stock[p]

\* a reserve request of some slot goes from its upsert or delete to its reply
WritesHold(s) == resReq[s].pc = "write" /\ resReq'[s].pc = "reply"

\* C30 amended: for a package whose stock does not change, a reserve request
\* for a quantity above 0 passes its check only if that quantity and the other
\* customers' active holds together are within the stock at the check, and its
\* write makes the active total of the package the requested quantity plus the
\* other customers' holds active at the write; the total stays within the
\* stock when the other customers' holds at the write are those of the check,
\* and is not bounded by the stock when two customers' requests both check
\* before either writes.
C30_HoldCoveredAtCheck ==
    [][ \A s \in HoldSlots :
          LET r == resReq[s] IN
          /\ ( PassesCheck(s) /\ r.quantity > 0 )
             => r.quantity + OthersHeld(r.package, r.customer) <= stock[r.package]
          /\ WritesHold(s)
             => HeldAt(r.package, now, holds') =
                    r.quantity + OthersHeld(r.package, r.customer) ]_vars

\* a request has passed its check beside another customer's active hold and
\* is about to write
C30_Witness ==
    \E s \in HoldSlots :
       /\ resReq[s].pc = "write"
       /\ resReq[s].quantity > 0
       /\ OthersHeld(resReq[s].package, resReq[s].customer) > 0
       /\ resReq[s].quantity + OthersHeld(resReq[s].package, resReq[s].customer)
             <= stock[resReq[s].package]


============================================================================
